---- MODULE Spec2Model ----
(***************************************************************************)
(* The block device manager (package devicemanager) and the attach/detach  *)
(* orchestration of package cloud, as a state machine.                     *)
(*                                                                         *)
(* Worker goroutines call Cloud.AttachDisk and Cloud.DetachDisk.  Every    *)
(* registry operation (NewBlockDevice, GetBlockDevice, release) is two     *)
(* steps: d.mux.Lock(), then the body up to the deferred d.mux.Unlock().   *)
(* Every EC2 call (DescribeInstances, AttachVolume, DetachVolume) is a     *)
(* step of its own, taken while the worker waits for the answer.           *)
(* Strings are TLA+ strings: a device path is devicePreffix \o suffix.     *)
(* SpecFixedView is the registry on a node whose reported attachments do   *)
(* not change; SpecDevice is the registry under callers that keep the      *)
(* *BlockDevice and call Taint and Release on it; SpecFair adds the        *)
(* fairness of the mutex and of the goroutines that hold it.               *)
(***************************************************************************)
EXTENDS Integers, Sequences, FiniteSets, TLC

\* ---------------------------------------------------------------- bounds
NumWorkers == 2
PoolSize == 2
MaxCalls == 3

Workers == 1..NumWorkers
Nodes == {"i-1", "i-2"}
Volumes == {"vol-1", "vol-2", "vol-3"}
\* The (volume, node) pairs the callers ask for: every volume on the first
\* node, one of them on the second node as well.
Requests == (Volumes \X {"i-1"}) \cup {<<"vol-3", "i-2">>}

\* ------------------------------------------------------------- constants
devicePreffix == "/dev/xvd"
sdPrefix == "/dev/sd"
Nobody == 0
Names == <<"a", "b", "c", "d", "e">>
EmptyMap == [k \in {} |-> ""]
NoDevice == [Path |-> "", IsAlreadyAssigned |-> FALSE, isTainted |-> FALSE]
NoCall == [op |-> "none", node |-> "", vol |-> ""]
NoResult == [kind |-> "none", path |-> "", err |-> "", cause |-> ""]
NoRelease == [err |-> "none", path |-> "", vol |-> "", existing |-> ""]
NoBatch == [node |-> "", free |-> 0, view |-> {}, known |-> {}, res |-> <<>>]
Causes == {"RequestLimitExceeded", "IncorrectState"}

VARIABLES
    attaching,          \* d.attaching: node -> (device path -> volume id)
    deviceAllocators,   \* d.deviceAllocators: node -> allocator state
    mux,                \* d.mux: the worker holding it, or Nobody
    cloud,              \* EC2's true attachments
    described,          \* what DescribeInstances answers for each node
    pc,                 \* each worker's position
    call,               \* each worker's current call and its arguments
    inst,               \* the instance descriptor a worker fetched
    dev,                \* the BlockDevice (mntDevice, alreadyAttached) it got
    attachEnded,        \* AttachDisk's attachEnded flag
    rel,                \* what the worker's last release returned
    nrel,               \* releases the worker's current call has executed
    ret,                \* what the worker's last finished call returned
    calls,              \* calls started so far
    batch               \* the reservation batch under observation, if any

registry == <<attaching, deviceAllocators>>
ec2 == <<cloud, described>>
locals == <<pc, call, inst, dev, attachEnded, rel, nrel, ret>>
vars == <<attaching, deviceAllocators, mux, cloud, described,
          pc, call, inst, dev, attachEnded, rel, nrel, ret, calls, batch>>

\* ------------------------------------------------------------------ maps
MapPut(m, k, v) == [x \in DOMAIN m \cup {k} |-> IF x = k THEN v ELSE m[x]]
MapDel(m, k) == [x \in DOMAIN m \ {k} |-> m[x]]

\* strings.HasPrefix
HasPrefix(s, p) == Len(s) >= Len(p) /\ SubSeq(s, 1, Len(p)) = p
\* s[n:]
Drop(s, n) == SubSeq(s, n + 1, Len(s))

\* ------------------------------------------------- the device allocator
\* NewDeviceAllocator: the pool in its initial preference order.
NewDeviceAllocator == SubSeq(Names, 1, PoolSize)
Pool == {Names[i] : i \in 1..PoolSize}

\* DeviceAllocator.GetNext: the first suffix of the preference order that is
\* not a key of the mappings; "" stands for the allocator's error.
GetNext(order, deviceMappings) ==
    LET free == {i \in 1..Len(order) : order[i] \notin DOMAIN deviceMappings}
    IN  IF free = {} THEN ""
        ELSE order[CHOOSE i \in free : \A j \in free : i <= j]

\* DeviceAllocator.Deprioritize: the suffix moves to the back of the order.
Deprioritize(order, suffix) ==
    LET keep == {i \in 1..Len(order) : order[i] # suffix}
        Nth(k) == CHOOSE i \in keep : Cardinality({j \in keep : j < i}) = k - 1
    IN  [k \in 1..Cardinality(keep) |-> order[Nth(k)]] \o <<suffix>>

\* ------------------------------------------------ blockDeviceManager
\* The two prefix tests of getDevicesInUse, in the code's order.
StripName(name) ==
    LET n1 == IF HasPrefix(name, sdPrefix) THEN Drop(name, 7) ELSE name
    IN  IF HasPrefix(n1, devicePreffix) THEN Drop(n1, 8) ELSE n1

\* d.attaching[nodeID]: a missing node reads as the nil (empty) map.
InFlight(n) == IF n \in DOMAIN attaching THEN attaching[n] ELSE EmptyMap

\* getDevicesInUse: the instance's mappings keyed by the stripped device
\* name, then every in-flight entry under its own key, the device path.
getDevicesInUse(mappings, n) ==
    LET names == {StripName(b.DeviceName) : b \in mappings}
        confirmed == [k \in names |->
            (CHOOSE b \in mappings : StripName(b.DeviceName) = k).VolumeId]
        inflight == InFlight(n)
    IN  [k \in DOMAIN confirmed \cup DOMAIN inflight |->
            IF k \in DOMAIN inflight THEN inflight[k] ELSE confirmed[k]]

\* getPath ranges over a Go map, whose iteration order is not fixed: any key
\* holding the volume may be the one returned; {""} when there is none.
getPath(deviceMappings, volumeID) ==
    LET keys == {k \in DOMAIN deviceMappings : deviceMappings[k] = volumeID}
    IN  IF keys = {} THEN {""} ELSE keys

newBlockDevice(path, isAlreadyAssigned) ==
    [Path |-> path, IsAlreadyAssigned |-> isAlreadyAssigned, isTainted |-> FALSE]

\* ---------------------------------------------------------------- Init
Init ==
    /\ attaching = EmptyMap
    /\ deviceAllocators = EmptyMap
    /\ mux = Nobody
    /\ cloud = {}
    /\ described = [n \in Nodes |-> {}]
    /\ pc = [w \in Workers |-> "idle"]
    /\ call = [w \in Workers |-> NoCall]
    /\ inst = [w \in Workers |-> {}]
    /\ dev = [w \in Workers |-> NoDevice]
    /\ attachEnded = [w \in Workers |-> FALSE]
    /\ rel = [w \in Workers |-> NoRelease]
    /\ nrel = [w \in Workers |-> 0]
    /\ ret = [w \in Workers |-> NoResult]
    /\ calls = 0
    /\ batch = NoBatch

\* A call returns: the worker is idle again and its locals are gone.
Returned(w) ==
    /\ pc' = [pc EXCEPT ![w] = "idle"]
    /\ inst' = [inst EXCEPT ![w] = {}]
    /\ dev' = [dev EXCEPT ![w] = NoDevice]
    /\ attachEnded' = [attachEnded EXCEPT ![w] = FALSE]

Ok(path) == [kind |-> "ok", path |-> path, err |-> "", cause |-> ""]
Err(err, cause) == [kind |-> "err", path |-> "", err |-> err, cause |-> cause]

\* AttachDisk's deferred function: release runs when attachEnded is set.
Deferred(ended) == IF ended THEN "rel_lock" ELSE "idle"

\* getInstance: what DescribeInstances answers for the node, which may lag
\* behind EC2's true state.
getInstance(n) == described[n]

\* A call begins.  The device manager first fetches the instance with
\* getInstance and then enters the registry.
Begin(w, op, v, n) ==
    /\ pc[w] = "idle"
    /\ calls < MaxCalls
    /\ calls' = calls + 1
    /\ call' = [call EXCEPT ![w] = [op |-> op, node |-> n, vol |-> v]]
    /\ rel' = [rel EXCEPT ![w] = NoRelease]
    /\ nrel' = [nrel EXCEPT ![w] = 0]
    /\ ret' = [ret EXCEPT ![w] = NoResult]
    /\ inst' = [inst EXCEPT ![w] = getInstance(n)]
    /\ UNCHANGED <<registry, mux, ec2, dev, attachEnded, batch>>

AttachDisk(w, v, n) ==
    /\ Begin(w, "attach", v, n)
    /\ pc' = [pc EXCEPT ![w] = "nbd_lock"]

DetachDisk(w, v, n) ==
    /\ Begin(w, "detach", v, n)
    /\ pc' = [pc EXCEPT ![w] = "gbd_lock"]

\* getInstance fails: the call returns the error with nothing reserved.
getInstanceFails(w, op, v, n) ==
    /\ pc[w] = "idle"
    /\ calls < MaxCalls
    /\ calls' = calls + 1
    /\ call' = [call EXCEPT ![w] = [op |-> op, node |-> n, vol |-> v]]
    /\ rel' = [rel EXCEPT ![w] = NoRelease]
    /\ nrel' = [nrel EXCEPT ![w] = 0]
    /\ \E c \in Causes :
         ret' = [ret EXCEPT ![w] = Err("error listing AWS instances", c)]
    /\ UNCHANGED <<registry, mux, ec2, pc, inst, dev, attachEnded, batch>>

\* ------------------------------------------------------- NewBlockDevice
\* assignDevice without the Deprioritize of the chosen suffix.
assignDevice_NoDeprioritize(mappings, n, v, found) ==
    LET deviceMappings == getDevicesInUse(mappings, n)
        deviceAllocator == IF n \in DOMAIN deviceAllocators
                           THEN deviceAllocators[n] ELSE NewDeviceAllocator
        suffix == GetNext(deviceAllocator, deviceMappings)
        path == devicePreffix \o suffix
    IN  IF found # ""
        THEN [device |-> newBlockDevice(found, TRUE), err |-> "",
              attaching |-> attaching, deviceAllocators |-> deviceAllocators]
        ELSE IF suffix = ""
        THEN [device |-> NoDevice,
              err |-> "too many EBS volumes attached to node",
              attaching |-> attaching,
              deviceAllocators |-> MapPut(deviceAllocators, n, deviceAllocator)]
        ELSE [device |-> newBlockDevice(path, FALSE), err |-> "",
              attaching |-> MapPut(attaching, n, MapPut(InFlight(n), path, v)),
              deviceAllocators |-> MapPut(deviceAllocators, n, deviceAllocator)]

\* The body of NewBlockDevice between Lock and Unlock, for the key `found`
\* that getPath returned: the device, the error, and the registry after it.
assignDevice(mappings, n, v, found) ==
    LET deviceMappings == getDevicesInUse(mappings, n)
        deviceAllocator == IF n \in DOMAIN deviceAllocators
                           THEN deviceAllocators[n] ELSE NewDeviceAllocator
        suffix == GetNext(deviceAllocator, deviceMappings)
        path == devicePreffix \o suffix
    IN  IF found # ""
        THEN [device |-> newBlockDevice(found, TRUE), err |-> "",
              attaching |-> attaching, deviceAllocators |-> deviceAllocators]
        ELSE IF suffix = ""
        THEN [device |-> NoDevice,
              err |-> "too many EBS volumes attached to node",
              attaching |-> attaching,
              deviceAllocators |-> MapPut(deviceAllocators, n, deviceAllocator)]
        ELSE [device |-> newBlockDevice(path, FALSE), err |-> "",
              attaching |-> MapPut(attaching, n, MapPut(InFlight(n), path, v)),
              deviceAllocators |->
                  MapPut(deviceAllocators, n, Deprioritize(deviceAllocator, suffix))]

NewBlockDevice_Lock(w) ==
    /\ pc[w] = "nbd_lock"
    /\ mux = Nobody
    /\ mux' = w
    /\ pc' = [pc EXCEPT ![w] = "nbd_body"]
    /\ UNCHANGED <<registry, ec2, call, inst, dev, attachEnded, rel, nrel, ret,
                   calls, batch>>

\* NewBlockDevice after which AttachDisk calls AttachVolume whatever
\* alreadyAttached says.
NewBlockDevice_AlwaysAttaches(w) ==
    LET n == call[w].node
        v == call[w].vol
    IN  /\ pc[w] = "nbd_body"
        /\ mux = w
        /\ mux' = Nobody
        /\ \E found \in getPath(getDevicesInUse(inst[w], n), v) :
             LET r == assignDevice(inst[w], n, v, found)
             IN  /\ attaching' = r.attaching
                 /\ deviceAllocators' = r.deviceAllocators
                 /\ batch' = batch
                 /\ IF r.err # ""
                    THEN /\ ret' = [ret EXCEPT ![w] = Err(r.err, "")]
                         /\ Returned(w)
                    ELSE /\ dev' = [dev EXCEPT ![w] = r.device]
                         /\ inst' = inst
                         /\ attachEnded' = attachEnded
                         /\ ret' = ret
                         /\ pc' = [pc EXCEPT ![w] = "attach_call"]
        /\ UNCHANGED <<ec2, call, rel, nrel, calls>>

\* NewBlockDevice without the deferred d.mux.Unlock().
NewBlockDevice_KeepsLock(w) ==
    LET n == call[w].node
        v == call[w].vol
    IN  /\ pc[w] = "nbd_body"
        /\ mux = w
        /\ mux' = mux
        /\ \E found \in getPath(getDevicesInUse(inst[w], n), v) :
             LET r == assignDevice(inst[w], n, v, found)
             IN  /\ attaching' = r.attaching
                 /\ deviceAllocators' = r.deviceAllocators
                 /\ batch' = batch
                 /\ IF r.err # ""
                    THEN /\ ret' = [ret EXCEPT ![w] = Err(r.err, "")]
                         /\ Returned(w)
                    ELSE /\ dev' = [dev EXCEPT ![w] = r.device]
                         /\ inst' = inst
                         /\ IF r.device.IsAlreadyAssigned
                            THEN /\ attachEnded' = [attachEnded EXCEPT ![w] = TRUE]
                                 /\ ret' = [ret EXCEPT ![w] = Ok(r.device.Path)]
                                 /\ pc' = [pc EXCEPT ![w] = Deferred(TRUE)]
                            ELSE /\ attachEnded' = attachEnded
                                 /\ ret' = ret
                                 /\ pc' = [pc EXCEPT ![w] = "attach_call"]
        /\ UNCHANGED <<ec2, call, rel, nrel, calls>>

\* NewBlockDevice from the lock to the deferred unlock, and what AttachDisk
\* does with the answer before its next blocking call: an error is returned
\* as it is; an already assigned device skips AttachVolume, so the attach has
\* ended and AttachDisk returns the device through its deferred release.
NewBlockDevice(w) ==
    LET n == call[w].node
        v == call[w].vol
    IN  /\ pc[w] = "nbd_body"
        /\ mux = w
        /\ mux' = Nobody
        /\ \E found \in getPath(getDevicesInUse(inst[w], n), v) :
             LET r == assignDevice(inst[w], n, v, found)
             IN  /\ attaching' = r.attaching
                 /\ deviceAllocators' = r.deviceAllocators
                 /\ batch' = IF batch.node = n
                             THEN [batch EXCEPT !.res = Append(@,
                                     [vol |-> v, err |-> r.err, device |-> r.device])]
                             ELSE batch
                 /\ IF r.err # ""
                    THEN /\ ret' = [ret EXCEPT ![w] = Err(r.err, "")]
                         /\ Returned(w)
                    ELSE /\ dev' = [dev EXCEPT ![w] = r.device]
                         /\ inst' = inst
                         /\ IF r.device.IsAlreadyAssigned
                            THEN /\ attachEnded' = [attachEnded EXCEPT ![w] = TRUE]
                                 /\ ret' = [ret EXCEPT ![w] = Ok(r.device.Path)]
                                 /\ pc' = [pc EXCEPT ![w] = Deferred(TRUE)]
                            ELSE /\ attachEnded' = attachEnded
                                 /\ ret' = ret
                                 /\ pc' = [pc EXCEPT ![w] = "attach_call"]
        /\ UNCHANGED <<ec2, call, rel, nrel, calls>>

\* ------------------------------------------------------- GetBlockDevice
GetBlockDevice_Lock(w) ==
    /\ pc[w] = "gbd_lock"
    /\ mux = Nobody
    /\ mux' = w
    /\ pc' = [pc EXCEPT ![w] = "gbd_body"]
    /\ UNCHANGED <<registry, ec2, call, inst, dev, attachEnded, rel, nrel, ret,
                   calls, batch>>

\* GetBlockDevice without the assignment device.IsAlreadyAssigned = true.
GetBlockDevice_NeverAssigned(w) ==
    /\ pc[w] = "gbd_body"
    /\ mux = w
    /\ mux' = Nobody
    /\ \E path \in getPath(getDevicesInUse(inst[w], call[w].node), call[w].vol) :
         dev' = [dev EXCEPT ![w] = newBlockDevice(path, FALSE)]
    /\ pc' = [pc EXCEPT ![w] = "detach_call"]
    /\ UNCHANGED <<registry, ec2, call, inst, attachEnded, rel, nrel, ret,
                   calls, batch>>

\* GetBlockDevice from the lock to the deferred unlock; DetachDisk then
\* issues DetachVolume.
GetBlockDevice(w) ==
    /\ pc[w] = "gbd_body"
    /\ mux = w
    /\ mux' = Nobody
    /\ \E path \in getPath(getDevicesInUse(inst[w], call[w].node), call[w].vol) :
         dev' = [dev EXCEPT ![w] = newBlockDevice(path, path # "")]
    /\ pc' = [pc EXCEPT ![w] = "detach_call"]
    /\ UNCHANGED <<registry, ec2, call, inst, attachEnded, rel, nrel, ret,
                   calls, batch>>

\* -------------------------------------------------------------- release
\* releaseDevice that answers nil when the device has no in-flight entry.
releaseDevice_AbsentIsNil(n, path, v) ==
    LET found == path \in DOMAIN InFlight(n)
        existingVolumeID == IF found THEN InFlight(n)[path] ELSE ""
    IN  IF ~found
        THEN [result |-> [err |-> "", path |-> path, vol |-> v, existing |-> ""],
              attaching |-> attaching]
        ELSE IF v # existingVolumeID
        THEN [result |-> [err |-> "release on device assigned to different volume",
                          path |-> path, vol |-> v, existing |-> existingVolumeID],
              attaching |-> attaching]
        ELSE [result |-> [err |-> "", path |-> path, vol |-> v, existing |-> v],
              attaching |-> [attaching EXCEPT ![n] = MapDel(@, path)]]

\* releaseDevice without the comparison of the volume ids.
releaseDevice_NoVolumeCheck(n, path, v) ==
    LET found == path \in DOMAIN InFlight(n)
    IN  IF ~found
        THEN [result |-> [err |-> "release called when attach not in progress",
                          path |-> path, vol |-> v, existing |-> ""],
              attaching |-> attaching]
        ELSE [result |-> [err |-> "", path |-> path, vol |-> v,
                          existing |-> InFlight(n)[path]],
              attaching |-> [attaching EXCEPT ![n] = MapDel(@, path)]]

\* releaseDevice without the delete.
releaseDevice_NoDelete(n, path, v) ==
    LET found == path \in DOMAIN InFlight(n)
        existingVolumeID == IF found THEN InFlight(n)[path] ELSE ""
    IN  IF ~found
        THEN [result |-> [err |-> "release called when attach not in progress",
                          path |-> path, vol |-> v, existing |-> ""],
              attaching |-> attaching]
        ELSE IF v # existingVolumeID
        THEN [result |-> [err |-> "release on device assigned to different volume",
                          path |-> path, vol |-> v, existing |-> existingVolumeID],
              attaching |-> attaching]
        ELSE [result |-> [err |-> "", path |-> path, vol |-> v, existing |-> v],
              attaching |-> attaching]

\* releaseDevice that deletes the path from the in-flight map of every node.
releaseDevice_AnyNode(n, path, v) ==
    LET found == path \in DOMAIN InFlight(n)
        existingVolumeID == IF found THEN InFlight(n)[path] ELSE ""
    IN  IF ~found
        THEN [result |-> [err |-> "release called when attach not in progress",
                          path |-> path, vol |-> v, existing |-> ""],
              attaching |-> attaching]
        ELSE IF v # existingVolumeID
        THEN [result |-> [err |-> "release on device assigned to different volume",
                          path |-> path, vol |-> v, existing |-> existingVolumeID],
              attaching |-> attaching]
        ELSE [result |-> [err |-> "", path |-> path, vol |-> v, existing |-> v],
              attaching |-> [m \in DOMAIN attaching |-> MapDel(attaching[m], path)]]

\* releaseDevice that deletes the node's whole in-flight map.
releaseDevice_DeletesNode(n, path, v) ==
    LET found == path \in DOMAIN InFlight(n)
        existingVolumeID == IF found THEN InFlight(n)[path] ELSE ""
    IN  IF ~found
        THEN [result |-> [err |-> "release called when attach not in progress",
                          path |-> path, vol |-> v, existing |-> ""],
              attaching |-> attaching]
        ELSE IF v # existingVolumeID
        THEN [result |-> [err |-> "release on device assigned to different volume",
                          path |-> path, vol |-> v, existing |-> existingVolumeID],
              attaching |-> attaching]
        ELSE [result |-> [err |-> "", path |-> path, vol |-> v, existing |-> v],
              attaching |-> [attaching EXCEPT ![n] = EmptyMap]]

\* The body of release for the device (path, v) of node n: the device it was
\* called for, the error it returns ("" for nil, else the message and the
\* ids it names) and d.attaching after it.
releaseDevice(n, path, v) ==
    LET found == path \in DOMAIN InFlight(n)
        existingVolumeID == IF found THEN InFlight(n)[path] ELSE ""
    IN  IF ~found
        THEN [result |-> [err |-> "release called when attach not in progress",
                          path |-> path, vol |-> v, existing |-> ""],
              attaching |-> attaching]
        ELSE IF v # existingVolumeID
        THEN [result |-> [err |-> "release on device assigned to different volume",
                          path |-> path, vol |-> v, existing |-> existingVolumeID],
              attaching |-> attaching]
        ELSE [result |-> [err |-> "", path |-> path, vol |-> v, existing |-> v],
              attaching |-> [attaching EXCEPT ![n] = MapDel(@, path)]]

release_Lock(w) ==
    /\ pc[w] = "rel_lock"
    /\ mux = Nobody
    /\ mux' = w
    /\ pc' = [pc EXCEPT ![w] = "rel_body"]
    /\ UNCHANGED <<registry, ec2, call, inst, dev, attachEnded, rel, nrel, ret,
                   calls, batch>>

\* release whose error DetachDisk returns instead of dropping it.
release_ErrorReturned(w) ==
    LET r == releaseDevice(call[w].node, dev[w].Path, call[w].vol)
    IN  /\ pc[w] = "rel_body"
        /\ mux = w
        /\ mux' = Nobody
        /\ attaching' = r.attaching
        /\ rel' = [rel EXCEPT ![w] = r.result]
        /\ nrel' = [nrel EXCEPT ![w] = @ + 1]
        /\ ret' = [ret EXCEPT ![w] =
                      IF call[w].op # "detach" THEN @
                      ELSE IF r.result.err = "" THEN Ok("")
                      ELSE Err(r.result.err, "")]
        /\ Returned(w)
        /\ UNCHANGED <<deviceAllocators, ec2, call, calls, batch>>

\* release from the lock to the deferred unlock.  Its caller drops the
\* error and returns: AttachDisk what its return statement had set,
\* DetachDisk nil.
release(w) ==
    LET r == releaseDevice(call[w].node, dev[w].Path, call[w].vol)
    IN  /\ pc[w] = "rel_body"
        /\ mux = w
        /\ mux' = Nobody
        /\ attaching' = r.attaching
        /\ rel' = [rel EXCEPT ![w] = r.result]
        /\ nrel' = [nrel EXCEPT ![w] = @ + 1]
        /\ ret' = [ret EXCEPT ![w] = IF call[w].op = "detach" THEN Ok("") ELSE @]
        /\ Returned(w)
        /\ UNCHANGED <<deviceAllocators, ec2, call, calls, batch>>

\* ------------------------------------------------------------- the cloud
\* The node's device-name-to-volume mappings in EC2's true state.
Mappings(n) ==
    {[DeviceName |-> a.DeviceName, VolumeId |-> a.VolumeId] :
        a \in {x \in cloud : x.node = n}}

\* EC2 accepts an attachment when the device name is free on the instance and
\* the volume is attached nowhere.
Attachable(n, path, v) ==
    /\ \A a \in cloud :
         ~(a.node = n /\ StripName(a.DeviceName) = StripName(path))
    /\ \A a \in cloud : a.VolumeId # v

\* AttachDisk: AttachVolume succeeds; the volume starts attaching.  The wait
\* for the attached state is commented out, so the attach has ended and
\* AttachDisk returns the device through its deferred release.
AttachVolume(w) ==
    LET n == call[w].node
        v == call[w].vol
    IN  /\ pc[w] = "attach_call"
        /\ Attachable(n, dev[w].Path, v)
        /\ cloud' = cloud \cup {[node |-> n, DeviceName |-> dev[w].Path,
                                 VolumeId |-> v, state |-> "attaching"]}
        /\ attachEnded' = [attachEnded EXCEPT ![w] = TRUE]
        /\ ret' = [ret EXCEPT ![w] = Ok(dev[w].Path)]
        /\ pc' = [pc EXCEPT ![w] = Deferred(attachEnded'[w])]
        /\ UNCHANGED <<registry, mux, described, call, inst, dev, rel, nrel,
                       calls, batch>>

\* AttachVolumeFails without attachEnded = true before the return.
AttachVolumeFails_NotEnded(w) ==
    /\ pc[w] = "attach_call"
    /\ attachEnded' = attachEnded
    /\ \E c \in Causes :
         ret' = [ret EXCEPT ![w] = Err("could not attach volume", c)]
    /\ pc' = [pc EXCEPT ![w] = Deferred(attachEnded'[w])]
    /\ UNCHANGED <<registry, mux, ec2, call, inst, dev, rel, nrel, calls, batch>>

\* AttachDisk: AttachVolume fails; attachEnded is set and the wrapped error
\* is returned through the deferred release.
AttachVolumeFails(w) ==
    /\ pc[w] = "attach_call"
    /\ attachEnded' = [attachEnded EXCEPT ![w] = TRUE]
    /\ \E c \in Causes :
         ret' = [ret EXCEPT ![w] = Err("could not attach volume", c)]
    /\ pc' = [pc EXCEPT ![w] = Deferred(attachEnded'[w])]
    /\ UNCHANGED <<registry, mux, ec2, call, inst, dev, rel, nrel, calls, batch>>

\* DetachDisk: DetachVolume succeeds; a device that was looked up is
\* released, and without one DetachDisk returns nil at once.
DetachVolume(w) ==
    LET n == call[w].node
        v == call[w].vol
    IN  /\ pc[w] = "detach_call"
        /\ \E a \in cloud : a.node = n /\ a.VolumeId = v
        /\ cloud' = {a \in cloud : ~(a.node = n /\ a.VolumeId = v)}
        /\ IF dev[w].Path # ""
           THEN /\ pc' = [pc EXCEPT ![w] = "rel_lock"]
                /\ UNCHANGED <<inst, dev, attachEnded, ret>>
           ELSE /\ ret' = [ret EXCEPT ![w] = Ok("")]
                /\ Returned(w)
        /\ UNCHANGED <<registry, mux, described, call, rel, nrel, calls, batch>>

\* DetachVolumeFails that releases the looked-up device before it returns.
DetachVolumeFails_Releases(w) ==
    /\ pc[w] = "detach_call"
    /\ \E c \in Causes :
         ret' = [ret EXCEPT ![w] = Err("could not detach volume", c)]
    /\ IF dev[w].Path # ""
       THEN /\ pc' = [pc EXCEPT ![w] = "rel_lock"]
            /\ UNCHANGED <<inst, dev, attachEnded>>
       ELSE Returned(w)
    /\ UNCHANGED <<registry, mux, ec2, call, rel, nrel, calls, batch>>

\* DetachDisk: DetachVolume fails and the wrapped error is returned.
DetachVolumeFails(w) ==
    /\ pc[w] = "detach_call"
    /\ \E c \in Causes :
         ret' = [ret EXCEPT ![w] = Err("could not detach volume", c)]
    /\ Returned(w)
    /\ UNCHANGED <<registry, mux, ec2, call, rel, nrel, calls, batch>>

\* EC2 finishes an attachment.
CloudAttached(a) ==
    /\ a \in cloud
    /\ a.state = "attaching"
    /\ cloud' = (cloud \ {a}) \cup {[a EXCEPT !.state = "attached"]}
    /\ UNCHANGED <<registry, mux, described, locals, calls, batch>>

\* DescribeInstances catches up with the true state of a node.
CloudSync(n) ==
    /\ described[n] # Mappings(n)
    /\ described' = [described EXCEPT ![n] = Mappings(n)]
    /\ UNCHANGED <<registry, mux, cloud, locals, calls, batch>>

\* ---------------------------------------------------------------- Next
Step(w) ==
    \/ \E r \in Requests : AttachDisk(w, r[1], r[2])
    \/ \E r \in Requests : DetachDisk(w, r[1], r[2])
    \/ \E op \in {"attach", "detach"}, r \in Requests :
         getInstanceFails(w, op, r[1], r[2])
    \/ NewBlockDevice_Lock(w)
    \/ NewBlockDevice(w)
    \/ AttachVolume(w)
    \/ AttachVolumeFails(w)
    \/ GetBlockDevice_Lock(w)
    \/ GetBlockDevice(w)
    \/ DetachVolume(w)
    \/ DetachVolumeFails(w)
    \/ release_Lock(w)
    \/ release(w)

Next ==
    \/ \E w \in Workers : Step(w)
    \/ \E a \in cloud : CloudAttached(a)
    \/ \E n \in Nodes : CloudSync(n)

Spec == Init /\ [][Next]_vars

\* ------------------------------------------- reservations under one view
\* The suffixes of the pool that neither a confirmed attachment of the
\* mappings nor an in-flight reservation of the node uses.
FreeSuffixes(mappings, n) ==
    {s \in Pool :
        /\ s \notin {StripName(b.DeviceName) : b \in mappings}
        /\ devicePreffix \o s \notin DOMAIN InFlight(n)}

\* The volumes of the merged view of the node.
KnownVolumes(mappings, n) ==
    LET deviceMappings == getDevicesInUse(mappings, n)
    IN  {deviceMappings[k] : k \in DOMAIN deviceMappings}

\* Observation starts: from here on every NewBlockDevice of the node is
\* recorded in batch.res, next to the number of suffixes free now.
Mark(n) ==
    /\ batch = NoBatch
    /\ batch' = [node |-> n,
                 free |-> Cardinality(FreeSuffixes(described[n], n)),
                 view |-> described[n],
                 known |-> KnownVolumes(described[n], n),
                 res |-> <<>>]
    /\ UNCHANGED <<registry, mux, ec2, locals, calls>>

\* Attachments made outside this process: each suffix of the pool is free
\* or holds a foreign volume, reported under either device-name prefix.
ForeignMappings ==
    LET all == {[DeviceName |-> p \o s, VolumeId |-> "vol-x" \o s] :
                    p \in {devicePreffix, sdPrefix}, s \in Pool}
    IN  {S \in SUBSET all :
            \A b1, b2 \in S :
                StripName(b1.DeviceName) = StripName(b2.DeviceName) => b1 = b2}

\* The registry after construction, on a node whose attachments the cloud
\* reports in full and which do not change.
InitFixedView ==
    /\ attaching = EmptyMap
    /\ deviceAllocators = EmptyMap
    /\ mux = Nobody
    /\ \E S \in ForeignMappings :
         /\ described = [n \in Nodes |-> IF n = "i-1" THEN S ELSE {}]
         /\ cloud = {[node |-> "i-1", DeviceName |-> b.DeviceName,
                      VolumeId |-> b.VolumeId, state |-> "attached"] : b \in S}
    /\ pc = [w \in Workers |-> "idle"]
    /\ call = [w \in Workers |-> NoCall]
    /\ inst = [w \in Workers |-> {}]
    /\ dev = [w \in Workers |-> NoDevice]
    /\ attachEnded = [w \in Workers |-> FALSE]
    /\ rel = [w \in Workers |-> NoRelease]
    /\ nrel = [w \in Workers |-> 0]
    /\ ret = [w \in Workers |-> NoResult]
    /\ calls = 0
    /\ batch = NoBatch

NextFixedView ==
    \/ \E w \in Workers :
         \/ \E v \in Volumes : AttachDisk(w, v, "i-1")
         \/ NewBlockDevice_Lock(w)
         \/ NewBlockDevice(w)
         \/ AttachVolume(w)
         \/ AttachVolumeFails(w)
         \/ release_Lock(w)
         \/ release(w)
    \/ Mark("i-1")

SpecFixedView == InitFixedView /\ [][NextFixedView]_vars

\* ------------------------------------ callers of the BlockDeviceManager
\* A caller of the BlockDeviceManager interface itself: it asks for a device
\* with NewBlockDevice, keeps the *BlockDevice it got, and calls Taint and
\* Release on it as often as it likes.
Reserve(w, v, n) ==
    /\ Begin(w, "NewBlockDevice", v, n)
    /\ pc' = [pc EXCEPT ![w] = "nbd_lock"]

\* NewBlockDevice from the lock to the deferred unlock, returning to such a
\* caller: it holds the device, or has the error.
NewBlockDeviceReturns(w) ==
    LET n == call[w].node
        v == call[w].vol
    IN  /\ pc[w] = "nbd_body"
        /\ mux = w
        /\ mux' = Nobody
        /\ \E found \in getPath(getDevicesInUse(inst[w], n), v) :
             LET r == assignDevice(inst[w], n, v, found)
             IN  /\ attaching' = r.attaching
                 /\ deviceAllocators' = r.deviceAllocators
                 /\ IF r.err # ""
                    THEN /\ ret' = [ret EXCEPT ![w] = Err(r.err, "")]
                         /\ Returned(w)
                    ELSE /\ ret' = [ret EXCEPT ![w] = Ok(r.device.Path)]
                         /\ dev' = [dev EXCEPT ![w] = r.device]
                         /\ pc' = [pc EXCEPT ![w] = "held"]
                         /\ UNCHANGED <<inst, attachEnded>>
        /\ UNCHANGED <<ec2, call, rel, nrel, calls, batch>>

\* BlockDevice.Taint
Taint(w) ==
    /\ pc[w] = "held"
    /\ dev' = [dev EXCEPT ![w].isTainted = TRUE]
    /\ call' = [call EXCEPT ![w].op = "Taint"]
    /\ UNCHANGED <<registry, mux, ec2, pc, inst, attachEnded, rel, nrel, ret,
                   calls, batch>>

\* BlockDevice.Release that calls releaseFunc whatever isTainted says.
Release_IgnoresTaint(w, force) ==
    /\ pc[w] = "held"
    /\ call' = [call EXCEPT ![w].op =
                    IF force THEN "Release(true)" ELSE "Release(false)"]
    /\ rel' = [rel EXCEPT ![w] = NoRelease]
    /\ nrel' = [nrel EXCEPT ![w] = 0]
    /\ pc' = [pc EXCEPT ![w] = "rel_lock"]
    /\ UNCHANGED <<registry, mux, ec2, inst, dev, attachEnded, ret, calls, batch>>

\* BlockDevice.Release: releaseFunc is called when the device is not tainted
\* or force is set; otherwise Release returns at once.
Release(w, force) ==
    /\ pc[w] = "held"
    /\ call' = [call EXCEPT ![w].op =
                    IF force THEN "Release(true)" ELSE "Release(false)"]
    /\ rel' = [rel EXCEPT ![w] = NoRelease]
    /\ nrel' = [nrel EXCEPT ![w] = 0]
    /\ pc' = [pc EXCEPT ![w] =
                 IF ~dev[w].isTainted \/ force THEN "rel_lock" ELSE "held"]
    /\ UNCHANGED <<registry, mux, ec2, inst, dev, attachEnded, ret, calls, batch>>

\* device.releaseFunc: d.release(device) from the lock to the deferred
\* unlock; Release logs the error and returns, the caller keeps the device.
releaseFunc(w) ==
    LET r == releaseDevice(call[w].node, dev[w].Path, call[w].vol)
    IN  /\ pc[w] = "rel_body"
        /\ mux = w
        /\ mux' = Nobody
        /\ attaching' = r.attaching
        /\ rel' = [rel EXCEPT ![w] = r.result]
        /\ nrel' = [nrel EXCEPT ![w] = @ + 1]
        /\ pc' = [pc EXCEPT ![w] = "held"]
        /\ UNCHANGED <<deviceAllocators, ec2, call, inst, dev, attachEnded, ret,
                       calls, batch>>

\* The caller drops the device.
Forget(w) ==
    /\ pc[w] = "held"
    /\ Returned(w)
    /\ UNCHANGED <<registry, mux, ec2, call, rel, nrel, ret, calls, batch>>

NextDevice ==
    \E w \in Workers :
        \/ \E r \in Requests : Reserve(w, r[1], r[2])
        \/ NewBlockDevice_Lock(w)
        \/ NewBlockDeviceReturns(w)
        \/ Taint(w)
        \/ \E force \in BOOLEAN : Release(w, force)
        \/ release_Lock(w)
        \/ releaseFunc(w)
        \/ Forget(w)

SpecDevice == Init /\ [][NextDevice]_vars

\* ---------------------------------------------------------------- claims
\* The volumes and the results of the observed reservations.
BatchFresh ==
    /\ batch.node # ""
    /\ Len(batch.res) <= batch.free
    /\ \A i \in 1..Len(batch.res) : batch.res[i].vol \notin batch.known
    /\ \A i, j \in 1..Len(batch.res) :
         i # j => batch.res[i].vol # batch.res[j].vol

\* C1: on a node with M free suffixes, N <= M reservation requests for N
\* distinct volumes that the merged view does not hold all succeed, each with
\* a newly assigned path, and the N paths are pairwise distinct, whatever
\* the order in which the mutex serves them.
C1_ReservesWithinFreeAreDistinct ==
    BatchFresh =>
        /\ \A i \in 1..Len(batch.res) :
             /\ batch.res[i].err = ""
             /\ batch.res[i].device.Path # ""
             /\ ~batch.res[i].device.IsAlreadyAssigned
        /\ \A i, j \in 1..Len(batch.res) :
             i # j => batch.res[i].device.Path # batch.res[j].device.Path

\* Two observed requests were served on a node with two free suffixes.
C1_Witness ==
    /\ BatchFresh
    /\ batch.free >= 2
    /\ Len(batch.res) = 2
    /\ DOMAIN InFlight(batch.node) # {}

\* ------------------------------------------------- claims on Spec
\* A worker of AttachDisk that holds the device NewBlockDevice returned to
\* it and has not released it yet.
Holds(w, n, s) ==
    /\ call[w].op = "attach"
    /\ pc[w] \in {"attach_call", "rel_lock", "rel_body"}
    /\ call[w].node = n
    /\ dev[w].Path # ""
    /\ StripName(dev[w].Path) = s

\* The volumes a device of a node is assigned to: by an in-flight entry, by
\* an attachment in EC2's true state, by a device handed to a caller.
AssignedVolumes(n, s) ==
    {InFlight(n)[k] : k \in {x \in DOMAIN InFlight(n) : StripName(x) = s}}
    \cup {a.VolumeId :
            a \in {x \in cloud : x.node = n /\ StripName(x.DeviceName) = s}}
    \cup {call[w].vol : w \in {x \in Workers : Holds(x, n, s)}}

\* C2: in every reachable state no device of a node is assigned to two
\* distinct volumes, counting in-flight reservations, EC2's true attachments
\* and the devices NewBlockDevice has handed out and that are still held.
C2_NoDoubleAssignment ==
    \A n \in Nodes, s \in Pool : Cardinality(AssignedVolumes(n, s)) <= 1

\* C3: no step changes the volume of an in-flight entry that stays in the
\* map: NewBlockDevice records an entry only under a path that had none.
C3_ReserveNeverReplaces ==
    [][\A n \in Nodes : \A p \in DOMAIN InFlight(n) :
          (n \in DOMAIN attaching' /\ p \in DOMAIN attaching'[n])
              => attaching'[n][p] = InFlight(n)[p]]_vars

\* C4: NewBlockDevice for a volume that has an in-flight entry on the node
\* (a first call was made and nothing released it) returns the path of that
\* entry with IsAlreadyAssigned set and leaves the in-flight map and the
\* allocators as they are, whatever the instance's mappings say.
C4_SecondReserveSamePath ==
    [][\A w \in Workers :
          (pc[w] = "nbd_body" /\ pc'[w] # "nbd_body") =>
              \A p \in DOMAIN InFlight(call[w].node) :
                  InFlight(call[w].node)[p] = call[w].vol =>
                      /\ dev'[w] = newBlockDevice(p, TRUE)
                      /\ UNCHANGED registry]_vars

\* C5: NewBlockDevice for a volume that the instance's mappings hold under
\* suffix s, with no in-flight entry on the node, returns the device path
\* with that suffix and IsAlreadyAssigned set, and leaves the in-flight map
\* and the allocators as they are.
C5_ConfirmedVolumeKeepsPath ==
    [][\A w \in Workers :
          (pc[w] = "nbd_body" /\ pc'[w] # "nbd_body"
              /\ DOMAIN InFlight(call[w].node) = {}) =>
              \A b \in inst[w] :
                  b.VolumeId = call[w].vol =>
                      /\ dev'[w] = newBlockDevice(
                            devicePreffix \o StripName(b.DeviceName), TRUE)
                      /\ UNCHANGED registry]_vars

\* The in-flight entry (path -> v) of node n is in the map after the step.
EntryAfter(n, path, v) ==
    /\ n \in DOMAIN attaching'
    /\ path \in DOMAIN attaching'[n]
    /\ attaching'[n][path] = v

\* Worker w returns from its call in this step.
Returns(w) == pc[w] # "idle" /\ pc'[w] = "idle"

\* Worker w leaves the body of release in this step.
Released(w) == pc[w] = "rel_body" /\ pc'[w] # "rel_body"

\* C6: when AttachDisk returns after NewBlockDevice assigned it a new
\* device, on the success path and on the AttachVolume failure path alike,
\* the call has executed release exactly once and the in-flight entry of its
\* reservation is not in the registry.
C6_ReservationEndsWithCall ==
    [][\A w \in Workers :
          (Returns(w) /\ call[w].op = "attach"
              /\ dev[w].Path # "" /\ ~dev[w].IsAlreadyAssigned) =>
              /\ nrel'[w] = 1
              /\ ~EntryAfter(call[w].node, dev[w].Path, call[w].vol)]_vars

\* One AttachDisk has returned a path and another the attach error, each
\* after one successful release, and nothing is in flight on the node.
C6_Witness ==
    \E w1, w2 \in Workers :
        /\ pc[w1] = "idle" /\ pc[w2] = "idle"
        /\ call[w1].op = "attach" /\ call[w2].op = "attach"
        /\ call[w1].node = call[w2].node
        /\ ret[w1].kind = "ok" /\ nrel[w1] = 1 /\ rel[w1].err = ""
        /\ ret[w2].err = "could not attach volume"
        /\ nrel[w2] = 1 /\ rel[w2].err = ""
        /\ DOMAIN InFlight(call[w1].node) = {}

\* C7: when AttachVolume fails, AttachDisk's return statement carries the
\* error that wraps the cause and the call does not return before its
\* release; when the call returns, the error is the one returned and the
\* in-flight entry of its reservation is gone.
C7_FailedAttachFreesPath ==
    [][\A w \in Workers :
          /\ (pc[w] = "attach_call" /\ pc'[w] # "attach_call" /\ cloud' = cloud) =>
                /\ ret'[w].kind = "err"
                /\ ret'[w].err = "could not attach volume"
                /\ ret'[w].cause \in Causes
                /\ pc'[w] = "rel_lock"
          /\ (Returns(w) /\ ret[w].err = "could not attach volume") =>
                /\ ret'[w] = ret[w]
                /\ nrel'[w] = 1
                /\ ~EntryAfter(call[w].node, dev[w].Path, call[w].vol)]_vars

\* An AttachDisk failed in AttachVolume and released its path; a later
\* reservation of another volume on the node holds that same path.
C7_Witness ==
    \E w1, w2 \in Workers :
        /\ pc[w1] = "idle"
        /\ ret[w1].err = "could not attach volume"
        /\ rel[w1].err = ""
        /\ pc[w2] = "attach_call"
        /\ call[w2].node = call[w1].node
        /\ call[w2].vol # call[w1].vol
        /\ ~dev[w2].IsAlreadyAssigned
        /\ dev[w2].Path = rel[w1].path
        /\ rel[w1].path \in DOMAIN InFlight(call[w2].node)
        /\ InFlight(call[w2].node)[rel[w1].path] = call[w2].vol

\* C8: when AttachDisk returns a device path, EC2 holds the attachment of
\* the volume to the node under that device path in the attached state.
C8_SuccessMeansAttached ==
    [][\A w \in Workers :
          (Returns(w) /\ call[w].op = "attach" /\ ret'[w].kind = "ok") =>
              \E a \in cloud' :
                  /\ a.node = call[w].node
                  /\ a.VolumeId = call[w].vol
                  /\ a.DeviceName = ret'[w].path
                  /\ a.state = "attached"]_vars

\* C9: release of a device whose path has no in-flight entry on its node
\* returns the "attach not in progress" error and leaves the in-flight map
\* of every node and every allocator as they are.
C9_ReleaseWithoutEntry ==
    [][\A w \in Workers :
          (Released(w) /\ dev[w].Path \notin DOMAIN InFlight(call[w].node)) =>
              /\ rel'[w].err = "release called when attach not in progress"
              /\ rel'[w].vol = call[w].vol
              /\ UNCHANGED registry]_vars

\* A release found no entry while another reservation was in flight.
C9_Witness ==
    \E w \in Workers :
        /\ pc[w] = "idle"
        /\ rel[w].err = "release called when attach not in progress"
        /\ \E n \in Nodes : DOMAIN InFlight(n) # {}

\* C10: release of a device whose path holds an in-flight entry of another
\* volume returns the mismatch error naming the path and both volume ids,
\* and the entry stays in the map with the volume it had.
C10_ReleaseOfOtherVolume ==
    [][\A w \in Workers :
          (Released(w) /\ dev[w].Path \in DOMAIN InFlight(call[w].node)
              /\ InFlight(call[w].node)[dev[w].Path] # call[w].vol) =>
              /\ rel'[w] = [err |-> "release on device assigned to different volume",
                            path |-> dev[w].Path, vol |-> call[w].vol,
                            existing |-> InFlight(call[w].node)[dev[w].Path]]
              /\ EntryAfter(call[w].node, dev[w].Path,
                            InFlight(call[w].node)[dev[w].Path])
              /\ UNCHANGED registry]_vars

\* A release met the entry of another volume, and the entry is still there.
C10_Witness ==
    \E w \in Workers :
        /\ pc[w] = "idle"
        /\ rel[w].err = "release on device assigned to different volume"
        /\ rel[w].vol # rel[w].existing
        /\ rel[w].path \in DOMAIN InFlight(call[w].node)
        /\ InFlight(call[w].node)[rel[w].path] = rel[w].existing

\* ------------------------------------------- claims on SpecDevice
\* C11: on a tainted device Release(false) returns without calling
\* releaseFunc and the registry is as it was, however often it is called;
\* Release(true) on a tainted device and Release(false) on an untainted one
\* call releaseFunc, which removes the in-flight entry of the device when the
\* entry holds the device's volume.
C11_TaintedReleaseIsNoOp ==
    [][\A w \in Workers :
          /\ (Release(w, FALSE) /\ dev[w].isTainted) =>
                /\ pc'[w] = "held"
                /\ UNCHANGED registry
          /\ (Release(w, TRUE) /\ dev[w].isTainted) => pc'[w] = "rel_lock"
          /\ (Release(w, FALSE) /\ ~dev[w].isTainted) => pc'[w] = "rel_lock"
          /\ (Released(w) /\ pc'[w] = "held"
                /\ dev[w].Path \in DOMAIN InFlight(call[w].node)
                /\ InFlight(call[w].node)[dev[w].Path] = call[w].vol) =>
                dev[w].Path \notin DOMAIN attaching'[call[w].node]]_vars

\* A caller holds a tainted device whose Release(false) has just returned
\* without a release, and the entry of the device is still in flight.
C11_Witness ==
    \E w \in Workers :
        /\ pc[w] = "held"
        /\ dev[w].isTainted
        /\ call[w].op = "Release(false)"
        /\ nrel[w] = 0
        /\ dev[w].Path \in DOMAIN InFlight(call[w].node)
        /\ InFlight(call[w].node)[dev[w].Path] = call[w].vol

\* ------------------------------------------- further claims on Spec
\* C12: NewBlockDevice for a volume the merged view does not hold, on a node
\* where every suffix of the pool is in use (by a confirmed attachment or by
\* an in-flight reservation), returns the "too many EBS volumes" error and
\* leaves the in-flight map and the allocators as they are.
C12_ExhaustionTouchesNothing ==
    [][\A w \in Workers :
          (pc[w] = "nbd_body" /\ pc'[w] # "nbd_body"
              /\ FreeSuffixes(inst[w], call[w].node) = {}
              /\ call[w].vol \notin KnownVolumes(inst[w], call[w].node)) =>
              /\ pc'[w] = "idle"
              /\ ret'[w].err = "too many EBS volumes attached to node"
              /\ UNCHANGED registry]_vars

\* C13: GetBlockDevice changes neither the in-flight map nor the allocators;
\* for a volume that is a value of the merged view of the node it returns a
\* path under which the view holds the volume, with IsAlreadyAssigned set,
\* and for any other volume a device with the empty path and
\* IsAlreadyAssigned unset.
C13_LookupIsReadOnly ==
    [][\A w \in Workers :
          (pc[w] = "gbd_body" /\ pc'[w] # "gbd_body") =>
              LET inUse == getDevicesInUse(inst[w], call[w].node)
                  paths == {k \in DOMAIN inUse : inUse[k] = call[w].vol}
              IN  /\ UNCHANGED registry
                  /\ IF paths = {}
                     THEN dev'[w] = newBlockDevice("", FALSE)
                     ELSE /\ dev'[w].Path \in paths
                          /\ dev'[w].IsAlreadyAssigned]_vars

\* A lookup has found the volume of a reservation that is still in flight,
\* and the reservation is still there.
C13_Witness ==
    \E w \in Workers :
        /\ pc[w] = "detach_call"
        /\ dev[w].IsAlreadyAssigned
        /\ dev[w].Path \in DOMAIN InFlight(call[w].node)
        /\ InFlight(call[w].node)[dev[w].Path] = call[w].vol

\* C14: in every reachable state the worker that holds the mutex is between
\* the Lock and the Unlock of NewBlockDevice, GetBlockDevice or release: no
\* worker waiting for AttachVolume or DetachVolume, and no worker outside a
\* call (where DescribeInstances is made), holds it.
C14_NoCloudCallUnderLock ==
    \A w \in Workers :
        mux = w => pc[w] \in {"nbd_body", "gbd_body", "rel_body"}

\* One worker waits for AttachVolume while another is inside the registry.
C14_Witness ==
    \E w1, w2 \in Workers :
        /\ pc[w1] = "attach_call"
        /\ mux = w2
        /\ pc[w2] = "nbd_body"

\* C15: when DetachVolume fails, DetachDisk returns at once the error that
\* wraps the cause: the call has executed no release, and the step changes
\* neither the in-flight map nor the allocators.
C15_FailedDetachReleasesNothing ==
    [][\A w \in Workers :
          (pc[w] = "detach_call" /\ pc'[w] # "detach_call" /\ cloud' = cloud) =>
              /\ pc'[w] = "idle"
              /\ ret'[w].kind = "err"
              /\ ret'[w].err = "could not detach volume"
              /\ ret'[w].cause \in Causes
              /\ nrel'[w] = 0
              /\ UNCHANGED registry]_vars

\* A DetachDisk has returned the detach error for a volume that it had
\* looked up and whose reservation is still in flight.
C15_Witness ==
    \E w \in Workers :
        /\ pc[w] = "idle"
        /\ call[w].op = "detach"
        /\ ret[w].err = "could not detach volume"
        /\ nrel[w] = 0
        /\ \E p \in DOMAIN InFlight(call[w].node) :
             InFlight(call[w].node)[p] = call[w].vol

\* C16: when DetachVolume succeeds, DetachDisk releases the device exactly
\* when the looked-up path is not empty, and returns nil: without a path at
\* once and with no release, with a path after the release, whatever error
\* the release returned.
C16_DetachSucceedsWhateverRelease ==
    [][\A w \in Workers :
          /\ (pc[w] = "detach_call" /\ pc'[w] # "detach_call" /\ cloud' # cloud) =>
                IF dev[w].Path = ""
                THEN /\ pc'[w] = "idle"
                     /\ ret'[w] = Ok("")
                     /\ nrel'[w] = 0
                     /\ UNCHANGED registry
                ELSE pc'[w] = "rel_lock"
          /\ (Returns(w) /\ call[w].op = "detach" /\ pc[w] = "rel_body") =>
                /\ ret'[w] = Ok("")
                /\ nrel'[w] = 1]_vars

\* A DetachDisk has returned nil although its release found no entry.
C16_Witness ==
    \E w \in Workers :
        /\ pc[w] = "idle"
        /\ call[w].op = "detach"
        /\ ret[w].kind = "ok"
        /\ nrel[w] = 1
        /\ rel[w].err = "release called when attach not in progress"

\* ------------------------------------ further claims on SpecFixedView
\* The observed reservations that handed out a new device.
HandedOut == {i \in 1..Len(batch.res) :
                 batch.res[i].err = "" /\ ~batch.res[i].device.IsAlreadyAssigned}

\* C17: let s be the suffix of the device most recently handed out on the
\* node, and let its in-flight entry be released.  The next NewBlockDevice
\* that hands out a device to another volume picks a suffix other than s
\* whenever another suffix of the pool is free, and picks s only when s is
\* the only free suffix.
C17_DeprioritizedSuffixComesLast ==
    [][\A w \in Workers :
          (pc[w] = "nbd_body" /\ pc'[w] # "nbd_body" /\ HandedOut # {}
              /\ Len(batch'.res) = Len(batch.res) + 1) =>
              LET last == CHOOSE i \in HandedOut : \A j \in HandedOut : j <= i
                  prev == batch.res[last]
                  new == batch'.res[Len(batch'.res)]
                  s == StripName(prev.device.Path)
                  free == FreeSuffixes(inst[w], batch.node)
              IN  (/\ prev.device.Path \notin DOMAIN InFlight(batch.node)
                   /\ new.vol # prev.vol
                   /\ new.err = ""
                   /\ ~new.device.IsAlreadyAssigned) =>
                      /\ free \ {s} # {} => new.device.Path # prev.device.Path
                      /\ new.device.Path = prev.device.Path => free = {s}]_vars

\* One caller reserved a device, released it and returned; its next call,
\* for another volume, holds a device with another suffix, the only one in
\* flight on the node.
C17_Witness ==
    \E w \in Workers :
        /\ pc[w] = "attach_call"
        /\ \A x \in Workers \ {w} : call[x] = NoCall
        /\ Len(batch.res) = 2
        /\ HandedOut = {1, 2}
        /\ batch.res[1].vol # batch.res[2].vol
        /\ batch.res[1].device.Path # batch.res[2].device.Path
        /\ DOMAIN InFlight(batch.node) = {batch.res[2].device.Path}

\* ------------------------------------------- further claims on Spec
\* C18: AttachDisk goes on to AttachVolume exactly when NewBlockDevice gave
\* it a device with IsAlreadyAssigned unset.  With IsAlreadyAssigned set,
\* the device is a path under which the merged view holds the volume,
\* AttachDisk returns that path without calling AttachVolume, and EC2 gains
\* an attachment only from a call whose device was newly assigned.
C18_AttachOnlyWhenNewlyAssigned ==
    [][/\ \A w \in Workers :
            /\ (pc[w] = "nbd_body" /\ pc'[w] \notin {"nbd_body", "idle"}) =>
                  /\ pc'[w] = "attach_call" <=> ~dev'[w].IsAlreadyAssigned
                  /\ dev'[w].IsAlreadyAssigned =>
                        LET inUse == getDevicesInUse(inst[w], call[w].node)
                        IN  /\ dev'[w].Path \in DOMAIN inUse
                            /\ inUse[dev'[w].Path] = call[w].vol
                            /\ ret'[w] = Ok(dev'[w].Path)
                            /\ pc'[w] = "rel_lock"
            /\ (pc'[w] = "attach_call" /\ pc[w] # "attach_call") =>
                  pc[w] = "nbd_body"
            /\ (Returns(w) /\ call[w].op = "attach" /\ dev[w].IsAlreadyAssigned) =>
                  ret'[w] = Ok(dev[w].Path)
       /\ \A n \in Nodes : \A b \in Mappings(n)' \ Mappings(n) :
            \E w \in Workers :
                /\ pc[w] = "attach_call"
                /\ ~dev[w].IsAlreadyAssigned
                /\ n = call[w].node
                /\ b.VolumeId = call[w].vol
                /\ b.DeviceName = dev[w].Path]_vars

\* An AttachDisk for a volume whose attachment another call has in flight
\* has returned the path of that reservation, and EC2 holds no attachment.
C18_Witness ==
    \E w \in Workers :
        /\ pc[w] = "idle"
        /\ call[w].op = "attach"
        /\ ret[w].kind = "ok"
        /\ ret[w].path # ""
        /\ nrel[w] = 1
        /\ cloud = {}
        /\ \E x \in Workers \ {w} :
             /\ pc[x] = "attach_call"
             /\ call[x].vol = call[w].vol
             /\ call[x].node = call[w].node
             /\ dev[x].Path = ret[w].path

\* A device path: the fixed prefix followed by a suffix of one or two
\* characters.
IsDevicePath(p) ==
    /\ HasPrefix(p, devicePreffix)
    /\ Len(p) - Len(devicePreffix) \in {1, 2}

\* C19: every non-empty Path of a device that NewBlockDevice or
\* GetBlockDevice returns is a device path, prefix and suffix, whether the
\* volume was found in the instance's mappings, found in the in-flight map
\* or newly assigned.
C19_PathHasPrefixAndSuffix ==
    [][\A w \in Workers :
          (pc[w] \in {"nbd_body", "gbd_body"} /\ pc'[w] # pc[w]
              /\ dev'[w].Path # "") => IsDevicePath(dev'[w].Path)]_vars

\* C20: release of a device whose path holds an in-flight entry of the
\* device's own volume returns nil and deletes that entry; every other
\* in-flight entry, of this node and of every other node, is there
\* afterwards with the volume it had, and no entry is added.
C20_ReleaseDeletesOneEntry ==
    [][\A w \in Workers :
          (Released(w) /\ dev[w].Path \in DOMAIN InFlight(call[w].node)
              /\ InFlight(call[w].node)[dev[w].Path] = call[w].vol) =>
              /\ rel'[w].err = ""
              /\ DOMAIN attaching' = DOMAIN attaching
              /\ dev[w].Path \notin DOMAIN attaching'[call[w].node]
              /\ \A n \in DOMAIN attaching :
                   /\ DOMAIN attaching'[n] \subseteq DOMAIN attaching[n]
                   /\ \A p \in DOMAIN attaching[n] :
                        (n # call[w].node \/ p # dev[w].Path) =>
                            /\ p \in DOMAIN attaching'[n]
                            /\ attaching'[n][p] = attaching[n][p]]_vars

\* Of the first two calls, the second has reserved the second suffix and
\* released it again while the first still waits for AttachVolume: the
\* entry of the first call, made before the release, is in flight.
C20_Witness ==
    \E w, x \in Workers :
        /\ calls = 2
        /\ pc[w] = "idle"
        /\ rel[w].err = ""
        /\ rel[w].path = devicePreffix \o Names[2]
        /\ rel[w].path \notin DOMAIN InFlight(call[w].node)
        /\ x # w
        /\ pc[x] = "attach_call"
        /\ call[x].node = call[w].node
        /\ dev[x].Path = devicePreffix \o Names[1]
        /\ dev[x].Path \in DOMAIN InFlight(call[x].node)

\* C21: while an AttachDisk that was assigned a new device waits for its
\* AttachVolume, the release of another AttachDisk or DetachDisk for the
\* same node and volume, which got the same path as already assigned, leaves
\* the in-flight entry of the waiting call in the map.
C21_ReservationOutlivesOtherCalls ==
    [][\A w, x \in Workers :
          (/\ x # w
           /\ pc[w] = "attach_call"
           /\ ~dev[w].IsAlreadyAssigned
           /\ dev[w].Path \in DOMAIN InFlight(call[w].node)
           /\ InFlight(call[w].node)[dev[w].Path] = call[w].vol
           /\ Released(x)
           /\ call[x].node = call[w].node
           /\ call[x].vol = call[w].vol
           /\ dev[x].IsAlreadyAssigned
           /\ dev[x].Path = dev[w].Path) =>
              EntryAfter(call[w].node, dev[w].Path, call[w].vol)]_vars

\* Node n has the same entry, or none, in both maps.
SameFor(m1, m2, n) ==
    /\ n \in DOMAIN m1 <=> n \in DOMAIN m2
    /\ n \in DOMAIN m1 => m1[n] = m2[n]

\* C22: NewBlockDevice, GetBlockDevice and release for a node leave the
\* in-flight map and the allocator of every other node as they are, and a
\* newly assigned path is the one the node's own allocator picks against the
\* node's own merged view, whatever the other nodes hold.
C22_NodesAreIndependent ==
    [][\A w \in Workers :
          (pc[w] \in {"nbd_body", "gbd_body", "rel_body"} /\ pc'[w] # pc[w]) =>
              /\ \A n \in Nodes \ {call[w].node} :
                   /\ SameFor(attaching, attaching', n)
                   /\ SameFor(deviceAllocators, deviceAllocators', n)
              /\ (pc[w] = "nbd_body" /\ pc'[w] = "attach_call") =>
                   LET own == IF call[w].node \in DOMAIN deviceAllocators
                              THEN deviceAllocators[call[w].node]
                              ELSE NewDeviceAllocator
                       view == getDevicesInUse(inst[w], call[w].node)
                   IN  dev'[w].Path = devicePreffix \o GetNext(own, view)]_vars

\* Two calls for different nodes wait for AttachVolume, each with a new
\* device of the same path in flight on its own node.
C22_Witness ==
    \E w, x \in Workers :
        /\ pc[w] = "attach_call"
        /\ pc[x] = "attach_call"
        /\ call[w].node # call[x].node
        /\ dev[w].Path = dev[x].Path
        /\ ~dev[w].IsAlreadyAssigned
        /\ ~dev[x].IsAlreadyAssigned
        /\ dev[w].Path \in DOMAIN InFlight(call[w].node)
        /\ dev[x].Path \in DOMAIN InFlight(call[x].node)

\* ------------------------------------------------ the registry under
\* fair scheduling.  sync.Mutex hands the lock to a goroutine that keeps
\* waiting for it (starvation mode), and a goroutine that holds the lock
\* runs on to its deferred Unlock.
Fairness ==
    \A w \in Workers :
        /\ SF_vars(NewBlockDevice_Lock(w))
        /\ SF_vars(GetBlockDevice_Lock(w))
        /\ SF_vars(release_Lock(w))
        /\ WF_vars(NewBlockDevice(w))
        /\ WF_vars(GetBlockDevice(w))
        /\ WF_vars(release(w))

\* The calls that contend for the mutex here: AttachDisk and DetachDisk of
\* the volumes of RequestsFair, from every worker.
RequestsFair == {<<"vol-1", "i-1">>}

NextFair ==
    \/ \E w \in Workers :
         \/ \E r \in RequestsFair : AttachDisk(w, r[1], r[2])
         \/ \E r \in RequestsFair : DetachDisk(w, r[1], r[2])
         \/ NewBlockDevice_Lock(w)
         \/ NewBlockDevice(w)
         \/ AttachVolume(w)
         \/ AttachVolumeFails(w)
         \/ GetBlockDevice_Lock(w)
         \/ GetBlockDevice(w)
         \/ DetachVolume(w)
         \/ DetachVolumeFails(w)
         \/ release_Lock(w)
         \/ release(w)
    \/ \E a \in cloud : CloudAttached(a)
    \/ \E n \in Nodes : CloudSync(n)

SpecFair == Init /\ [][NextFair]_vars /\ Fairness

\* C23: under fair scheduling every call of NewBlockDevice, GetBlockDevice
\* and release that waits for the mutex gets it and runs to its return, the
\* release from AttachDisk's deferred function included, and whoever holds
\* the mutex frees it.
C23_RegistryCallsComplete ==
    \A w \in Workers :
        /\ pc[w] = "nbd_lock" ~> pc[w] \in {"attach_call", "rel_lock", "idle"}
        /\ pc[w] = "gbd_lock" ~> pc[w] = "detach_call"
        /\ pc[w] = "rel_lock" ~> pc[w] = "idle"
        /\ mux = w ~> mux # w

\* An AttachDisk waits with its deferred release for the mutex that
\* another call holds.
C23_Witness ==
    \E w, x \in Workers :
        /\ x # w
        /\ pc[w] = "rel_lock"
        /\ call[w].op = "attach"
        /\ mux = x

====
